---- MODULE Spec2Model ----
(***************************************************************************)
(* Retail Insights Assistant: the bounded-retry pipeline of src/graph.py   *)
(* (query_resolution -> data_extraction -> validation -> formatter) run    *)
(* once per user turn by the chat loop of src/main.py.                     *)
(*                                                                         *)
(* The language model and the DuckDB engine are external: every call to    *)
(* them is a nondeterministic choice over the outcomes it can have (a      *)
(* value of the declared output type, or an exception).                    *)
(*                                                                         *)
(* Texts are TLA+ strings and f-strings are concatenations (\o).  Python's *)
(* None is the value None below.  The fields table_metadata, db_con and    *)
(* table_name never change and the write-only log "messages" is read by no *)
(* node; they are left out of the state record.                            *)
(***************************************************************************)
EXTENDS Integers, Sequences, FiniteSets, TLC

\* ------------------------------------------------------------------ bounds
\* Number of user turns the chat loop is followed for.
MaxTurns == 2

\* ------------------------------------------------------- program constants
MAX_RETRIES_RESOLUTION == 3
MAX_RETRIES_EXTRACTION == 3

\* Python's None (state["error"], state["resolution"], query_spec).
None == "<None>"

\* ------------------------------------------------- values of the outside
\* What the user types.
Queries == {"q1"}
\* QueryResolutionOutput objects the resolution LLM can return.  The
\* orchestrator never looks inside one (no node checks its columns).
Specs == {"spec1"}
\* Exception messages (str(exc)) of the three LLM calls and of the engine.
ResolutionExcs == {"resolution LLM down"}
ExtractionExcs == {"Binder Error"}
JudgeExcs == {"judge LLM down"}
FormatterExcs == {"formatter LLM down"}
\* SQL text the extraction LLM returns (already stripped of code fences).
Sqls == {"SELECT 1"}
\* Result sets of the engine: no row, or one row; one column.
RowSets == {<< >>, <<"row1">>}
ResultColumns == <<"c1">>
\* ValidationOutput.reason and ValidationOutput.route_to as the Judge may
\* give them: the two values the code recognises, and "" for any other.
Reasons == {"reason1", "reason2"}
Routes == {"query_resolution", "data_extraction", ""}
\* response.content of the formatter LLM.
Answers == {"answer1"}

Nodes == {"query_resolution", "data_extraction", "validation", "formatter"}

VARIABLES
    api_key,        \* os.getenv("OPENAI_API_KEY") is set
    chat_history,   \* main(): chat_history
    turn,           \* number of turns started
    pc,             \* "idle" (input()), a node of the graph, or "END"
    state,          \* RetailAgenticState of the turn in flight
    trace,          \* history: the nodes run in this turn, in order
    verdicts,       \* history: the judgments of this turn, in order
    judgment,       \* history: the latest judgment, with its reason
    judge_calls,    \* history: calls of the Judge LLM in this turn
    builder         \* test_sql_builder.py: resolution, table_name, sql_query

vars == <<api_key, chat_history, turn, pc, state, trace, verdicts, judgment, judge_calls,
          builder>>

\* ---------------------------------------------------------------- helpers
RECURSIVE JoinLines(_)
JoinLines(lines) ==
    IF lines = << >> THEN ""
    ELSE IF Len(lines) = 1 THEN lines[1]
    ELSE lines[1] \o "\n" \o JoinLines(Tail(lines))

\* formatter_agent.rows_to_text, for rows of one column and at most 20 rows.
rows_to_text(rows, columns) ==
    IF rows = << >> THEN "(no data)"
    ELSE JoinLines(<<JoinLines(columns)>> \o rows)

\* Python truthiness of state.get("error") / state.get("resolution").
Truthy(v) == v # None /\ v # ""

Count(seq, x) == Cardinality({i \in 1..Len(seq) : seq[i] = x})

\* initial_state that starts from the resolution of the turn before.
initial_state_keeps_resolution(user_input, history) ==
    [ user_query             |-> user_input,
      chat_history           |-> history,
      resolution             |-> IF Len(history) >= 2
                                 THEN history[Len(history) - 1].query_spec
                                 ELSE None,
      sql                    |-> "",
      rows                   |-> << >>,
      columns                |-> << >>,
      validation_passed      |-> FALSE,
      validation_reason      |-> "",
      validation_feedback    |-> "",
      route_to               |-> "",
      resolution_retry_count |-> 0,
      extraction_retry_count |-> 0,
      final_answer           |-> "",
      error                  |-> None ]

\* main(): initial_state of a turn.
initial_state(user_input, history) ==
    [ user_query             |-> user_input,
      chat_history           |-> history,
      resolution             |-> None,
      sql                    |-> "",
      rows                   |-> << >>,
      columns                |-> << >>,
      validation_passed      |-> FALSE,
      validation_reason      |-> "",
      validation_feedback    |-> "",
      route_to               |-> "",
      resolution_retry_count |-> 0,
      extraction_retry_count |-> 0,
      final_answer           |-> "",
      error                  |-> None ]

\* No judgment made yet in this turn.
NoJudgment == [by |-> "none", passed |-> FALSE, route_to |-> "", reason |-> ""]

\* --------------------------------------------- outcomes of external calls
\* structured_llm.invoke of query_resolution_agent: a spec, or an exception.
ResolutionOutcomes ==
    {[raised |-> FALSE, exc |-> "", result |-> r] : r \in Specs}
    \cup {[raised |-> TRUE, exc |-> e, result |-> None] : e \in ResolutionExcs}

\* data_extraction_agent's try block: the LLM's SQL run by the engine, or an
\* exception of either.
ExtractionOutcomes ==
    {[raised |-> FALSE, exc |-> "", sql |-> q, rows |-> r] : q \in Sqls, r \in RowSets}
    \cup {[raised |-> TRUE, exc |-> e, sql |-> "", rows |-> << >>] : e \in ExtractionExcs}

\* structured_llm.invoke of validation_agent: a ValidationOutput, or an
\* exception.
JudgeOutcomes ==
    {[raised |-> FALSE, exc |-> "", passed |-> p, reason |-> r, route_to |-> rt] :
        p \in BOOLEAN, r \in Reasons, rt \in Routes}
    \cup {[raised |-> TRUE, exc |-> e, passed |-> FALSE, reason |-> "", route_to |-> ""] :
        e \in JudgeExcs}

\* llm.invoke of formatter_agent: the answer text, or an exception.
FormatterOutcomes ==
    {[raised |-> FALSE, exc |-> "", content |-> a] : a \in Answers}
    \cup {[raised |-> TRUE, exc |-> e, content |-> ""] : e \in FormatterExcs}

\* ------------------------------------------------------------- the nodes
\* Each node is a function of the state it is given, of the API key being
\* set and of the outcome of its external call; it returns {**state, ...}.

\* query_resolution_agent that clears the feedback it was re-entered with.
query_resolution_agent_clears_feedback(s, key, out) ==
    IF ~key THEN
        [s EXCEPT !.error = "OPENAI_API_KEY environment variable not set."]
    ELSE IF out.raised THEN
        [s EXCEPT !.error = "query_resolution_agent failed: " \o out.exc]
    ELSE
        [s EXCEPT !.resolution = out.result, !.error = None,
                  !.validation_feedback = "", !.route_to = ""]

query_resolution_agent(s, key, out) ==
    IF ~key THEN
        [s EXCEPT !.error = "OPENAI_API_KEY environment variable not set."]
    ELSE IF out.raised THEN
        [s EXCEPT !.error = "query_resolution_agent failed: " \o out.exc]
    ELSE
        [s EXCEPT !.resolution = out.result, !.error = None]

\* data_extraction_agent without the early return on a missing resolution.
data_extraction_agent_no_resolution_check(s, key, out) ==
    IF ~key THEN
        [s EXCEPT !.error = "OPENAI_API_KEY not set."]
    ELSE IF out.raised THEN
        [s EXCEPT !.sql = "", !.rows = << >>, !.columns = << >>,
                  !.error = "data_extraction_agent failed: " \o out.exc]
    ELSE
        [s EXCEPT !.sql = out.sql, !.rows = out.rows, !.columns = ResultColumns,
                  !.error = None]

\* data_extraction_agent whose except branch keeps the earlier result.
data_extraction_agent_keeps_rows(s, key, out) ==
    IF ~key THEN
        [s EXCEPT !.error = "OPENAI_API_KEY not set."]
    ELSE IF ~Truthy(s.resolution) THEN
        [s EXCEPT !.error = "data_extraction_agent: no resolution in state"]
    ELSE IF out.raised THEN
        [s EXCEPT !.error = "data_extraction_agent failed: " \o out.exc]
    ELSE
        [s EXCEPT !.sql = out.sql, !.rows = out.rows, !.columns = ResultColumns,
                  !.error = None]

data_extraction_agent(s, key, out) ==
    IF ~key THEN
        [s EXCEPT !.error = "OPENAI_API_KEY not set."]
    ELSE IF ~Truthy(s.resolution) THEN
        [s EXCEPT !.error = "data_extraction_agent: no resolution in state"]
    ELSE IF out.raised THEN
        [s EXCEPT !.sql = "", !.rows = << >>, !.columns = << >>,
                  !.error = "data_extraction_agent failed: " \o out.exc]
    ELSE
        [s EXCEPT !.sql = out.sql, !.rows = out.rows, !.columns = ResultColumns,
                  !.error = None]

\* SyntheticJudgment that counts an execution error as two retries.
SyntheticJudgment_double(s) ==
    LET reason == "SQL execution failed: " \o s.error IN
    [s EXCEPT !.validation_passed = FALSE,
              !.validation_reason = reason,
              !.validation_feedback = reason,
              !.route_to = "data_extraction",
              !.extraction_retry_count = s.extraction_retry_count + 2]

\* The branch of validation_agent taken when state["error"] is set: a
\* failing judgment made without the Judge.
SyntheticJudgment(s) ==
    LET reason == "SQL execution failed: " \o s.error IN
    [s EXCEPT !.validation_passed = FALSE,
              !.validation_reason = reason,
              !.validation_feedback = reason,
              !.route_to = "data_extraction",
              !.extraction_retry_count = s.extraction_retry_count + 1]

\* The route validation_agent keeps of a failing ValidationOutput.
NormalRoute(route_to) ==
    IF route_to \in {"query_resolution", "data_extraction"}
    THEN route_to ELSE "data_extraction"

\* FailedJudgment that keeps the reason of the turn's first failure.
FailedJudgment_first_reason(s, response) ==
    LET route == NormalRoute(response.route_to) IN
    [s EXCEPT !.validation_passed = FALSE,
              !.validation_reason = IF @ = "" THEN response.reason ELSE @,
              !.validation_feedback = response.reason,
              !.route_to = route,
              !.resolution_retry_count =
                  s.resolution_retry_count + (IF route = "query_resolution" THEN 1 ELSE 0),
              !.extraction_retry_count =
                  s.extraction_retry_count + (IF route = "data_extraction" THEN 1 ELSE 0)]

\* FailedJudgment that charges every failure to the extraction counter.
FailedJudgment_charge_extraction(s, response) ==
    LET route == NormalRoute(response.route_to) IN
    [s EXCEPT !.validation_passed = FALSE,
              !.validation_reason = response.reason,
              !.validation_feedback = response.reason,
              !.route_to = route,
              !.extraction_retry_count = s.extraction_retry_count + 1]

\* The else branch of validation_agent: the Judge answered passed = False.
FailedJudgment(s, response) ==
    LET route == NormalRoute(response.route_to) IN
    [s EXCEPT !.validation_passed = FALSE,
              !.validation_reason = response.reason,
              !.validation_feedback = response.reason,
              !.route_to = route,
              !.resolution_retry_count =
                  s.resolution_retry_count + (IF route = "query_resolution" THEN 1 ELSE 0),
              !.extraction_retry_count =
                  s.extraction_retry_count + (IF route = "data_extraction" THEN 1 ELSE 0)]

\* The Judge answered passed = True.
PassedJudgment(s, response) ==
    [s EXCEPT !.validation_passed = TRUE,
              !.validation_reason = response.reason,
              !.validation_feedback = "",
              !.route_to = "",
              !.error = None]

\* JudgeUnavailable that fails the result instead of passing it through.
JudgeUnavailable_fails(s, exc) ==
    [s EXCEPT !.validation_passed = FALSE,
              !.validation_reason = "Validation LLM failed (" \o exc \o ")",
              !.validation_feedback = ""]

\* The except branch of validation_agent: the Judge call raised.
JudgeUnavailable(s, exc) ==
    [s EXCEPT !.validation_passed = TRUE,
              !.validation_reason = "Validation LLM failed (" \o exc \o "), passing through.",
              !.validation_feedback = ""]

\* validation_path without the early return on state["error"].
validation_path_no_error_check(s, key, out) ==
    IF ~key THEN "no_key"
    ELSE IF out.raised THEN "unavailable"
    ELSE IF out.passed THEN "passed"
    ELSE "failed"

\* The path validation_agent takes: its two early returns come before the
\* Judge is called; the other three paths call it.
validation_path(s, key, out) ==
    IF ~key THEN "no_key"
    ELSE IF Truthy(s.error) THEN "synthetic"
    ELSE IF out.raised THEN "unavailable"
    ELSE IF out.passed THEN "passed"
    ELSE "failed"

JudgeInvoked(path) == path \in {"unavailable", "passed", "failed"}

\* validation_agent with the test of response.passed inverted.
validation_agent_inverted(s, key, out) ==
    LET path == validation_path(s, key, out) IN
    CASE path = "no_key"      -> [s EXCEPT !.error = "OPENAI_API_KEY not set."]
      [] path = "synthetic"   -> SyntheticJudgment(s)
      [] path = "unavailable" -> JudgeUnavailable(s, out.exc)
      [] path = "passed"      -> FailedJudgment(s, out)
      [] path = "failed"      -> PassedJudgment(s, out)

validation_agent(s, key, out) ==
    LET path == validation_path(s, key, out) IN
    CASE path = "no_key"      -> [s EXCEPT !.error = "OPENAI_API_KEY not set."]
      [] path = "synthetic"   -> SyntheticJudgment(s)
      [] path = "unavailable" -> JudgeUnavailable(s, out.exc)
      [] path = "passed"      -> PassedJudgment(s, out)
      [] path = "failed"      -> FailedJudgment(s, out)

\* validation_router with the ceilings compared inclusively (<=).
validation_router_inclusive(s) ==
    IF s.validation_passed THEN "formatter"
    ELSE IF s.route_to = "query_resolution"
            /\ s.resolution_retry_count <= MAX_RETRIES_RESOLUTION THEN "query_resolution"
    ELSE IF s.route_to = "data_extraction"
            /\ s.extraction_retry_count <= MAX_RETRIES_EXTRACTION THEN "data_extraction"
    ELSE "formatter"

\* validation_router that compares each route with the other stage's count.
validation_router_swapped(s) ==
    IF s.validation_passed THEN "formatter"
    ELSE IF s.route_to = "query_resolution"
            /\ s.extraction_retry_count < MAX_RETRIES_EXTRACTION THEN "query_resolution"
    ELSE IF s.route_to = "data_extraction"
            /\ s.resolution_retry_count < MAX_RETRIES_RESOLUTION THEN "data_extraction"
    ELSE "formatter"

\* validation_router with an edge from a passing judgment straight to END.
validation_router_ends(s) ==
    IF s.validation_passed THEN "END"
    ELSE IF s.route_to = "query_resolution"
            /\ s.resolution_retry_count < MAX_RETRIES_RESOLUTION THEN "query_resolution"
    ELSE IF s.route_to = "data_extraction"
            /\ s.extraction_retry_count < MAX_RETRIES_EXTRACTION THEN "data_extraction"
    ELSE "formatter"

\* graph.py: the conditional edge out of "validation".
validation_router(s) ==
    IF s.validation_passed THEN "formatter"
    ELSE IF s.route_to = "query_resolution"
            /\ s.resolution_retry_count < MAX_RETRIES_RESOLUTION THEN "query_resolution"
    ELSE IF s.route_to = "data_extraction"
            /\ s.extraction_retry_count < MAX_RETRIES_EXTRACTION THEN "data_extraction"
    ELSE "formatter"

\* formatter_agent's early return: retries exhausted with no valid rows.
ErrorAnswer(s) == ~s.validation_passed /\ s.rows = << >>

\* formatter_agent whose error answer gives the default reason.
formatter_agent_default_reason(s, key, out) ==
    IF ~key THEN
        [s EXCEPT !.final_answer = "Error: OPENAI_API_KEY not set.",
                  !.error = "no API key"]
    ELSE IF ErrorAnswer(s) THEN
        [s EXCEPT !.final_answer = "I wasn't able to answer that. " \o "Unknown error."]
    ELSE IF out.raised THEN
        [s EXCEPT !.final_answer = "Results (" \o ToString(Len(s.rows)) \o " rows):\n"
                                     \o rows_to_text(s.rows, s.columns),
                  !.error = "formatter LLM failed: " \o out.exc]
    ELSE
        [s EXCEPT !.final_answer = out.content, !.error = None]

formatter_agent(s, key, out) ==
    IF ~key THEN
        [s EXCEPT !.final_answer = "Error: OPENAI_API_KEY not set.",
                  !.error = "no API key"]
    ELSE IF ErrorAnswer(s) THEN
        [s EXCEPT !.final_answer = "I wasn't able to answer that. " \o s.validation_reason]
    ELSE IF out.raised THEN
        [s EXCEPT !.final_answer = "Results (" \o ToString(Len(s.rows)) \o " rows):\n"
                                     \o rows_to_text(s.rows, s.columns),
                  !.error = "formatter LLM failed: " \o out.exc]
    ELSE
        [s EXCEPT !.final_answer = out.content, !.error = None]

\* ------------------------------------------------------------ the prompts
\* A prompt is modelled by the sequence of the values its f-string
\* interpolates; the fixed wording around them is left out.
TABLE_NAME == "<table_name>"
TABLE_METADATA == "<table_metadata>"

\* query_resolution_agent: system_prompt (table_metadata) and prompt
\* (user_query).
resolution_prompt(s) == <<TABLE_METADATA, s.user_query>>

\* data_extraction_agent: user_prompt, with retry_note when
\* state["validation_feedback"] is not empty.
extraction_prompt(s) ==
    <<TABLE_NAME, TABLE_METADATA, s.resolution>>
    \o (IF s.validation_feedback # "" THEN <<s.validation_feedback>> ELSE << >>)

\* ------------------------------------------- testingagents/test_sql_builder
LOWER == "abcdefghijklmnopqrstuvwxyz"
UPPER == "ABCDEFGHIJKLMNOPQRSTUVWXYZ"

\* The character c translated by the table from -> to; other characters
\* are kept.
MapChar(c, from, to) ==
    IF \E i \in 1..Len(from) : SubSeq(from, i, i) = c
    THEN LET i == CHOOSE j \in 1..Len(from) : SubSeq(from, j, j) = c
         IN SubSeq(to, i, i)
    ELSE c

RECURSIVE MapChars(_, _, _)
MapChars(s, from, to) ==
    IF s = "" THEN ""
    ELSE MapChar(SubSeq(s, 1, 1), from, to) \o MapChars(SubSeq(s, 2, Len(s)), from, to)

\* upper that keeps the letter case.
upper_keeps_case(s) == s

\* str.upper(), str.lower()
upper(s) == MapChars(s, LOWER, UPPER)
lower(s) == MapChars(s, UPPER, LOWER)

\* str.replace(old, new) for a one-character old
RECURSIVE replace(_, _, _)
replace(s, old, new) ==
    IF s = "" THEN ""
    ELSE (IF SubSeq(s, 1, 1) = old THEN new ELSE SubSeq(s, 1, 1))
         \o replace(SubSeq(s, 2, Len(s)), old, new)

\* sep.join(parts)
RECURSIVE join(_, _)
join(sep, parts) ==
    IF Len(parts) = 0 THEN ""
    ELSE IF Len(parts) = 1 THEN parts[1]
    ELSE parts[1] \o sep \o join(sep, Tail(parts))

\* A Python scalar: its type and its value.
PyStr(s)  == [kind |-> "str",  s |-> s,  n |-> 0, b |-> FALSE]
PyInt(n)  == [kind |-> "int",  s |-> "", n |-> n, b |-> FALSE]
PyBool(b) == [kind |-> "bool", s |-> "", n |-> 0, b |-> b]
PyNone   == [kind |-> "none", s |-> "", n |-> 0, b |-> FALSE]

\* _lit with the numeric case tried before the boolean one.
_lit_numeric_first(value) ==
    IF value.kind = "str" THEN "'" \o replace(value.s, "'", "''") \o "'"
    ELSE IF value.kind = "none" THEN "NULL"
    ELSE IF value.kind = "bool" THEN (IF value.b THEN "True" ELSE "False")
    ELSE ToString(value.n)

_lit(value) ==
    IF value.kind = "bool" THEN (IF value.b THEN "true" ELSE "false")
    ELSE IF value.kind = "str" THEN "'" \o replace(value.s, "'", "''") \o "'"
    ELSE IF value.kind = "none" THEN "NULL"
    ELSE ToString(value.n)

\* _q that leaves the name bare.
_q_bare(col) == col

_q(col) == "\"" \o col \o "\""

\* The keys of _OP_MAP.
OP_KEYS == {"equals", "greater_than", "less_than", "greater_or_equal",
            "less_or_equal", "in", "between"}

\* _OP_MAP["between"] with the two bounds put in ascending order.
between_ordered(c, v) ==
    IF v[1].kind = "int" /\ v[2].kind = "int" /\ v[1].n > v[2].n
    THEN c \o " BETWEEN " \o _lit(v[2]) \o " AND " \o _lit(v[1])
    ELSE c \o " BETWEEN " \o _lit(v[1]) \o " AND " \o _lit(v[2])

\* _OP_MAP["between"]
between(c, v) == c \o " BETWEEN " \o _lit(v[1]) \o " AND " \o _lit(v[2])

\* _OP_MAP[op](c, v).  A filter value v is the sequence of its scalars: one
\* scalar for a comparison, the elements of the list for in and between.
_OP_MAP(op, c, v) ==
    CASE op = "equals"           -> c \o " = "  \o _lit(v[1])
      [] op = "greater_than"     -> c \o " > "  \o _lit(v[1])
      [] op = "less_than"        -> c \o " < "  \o _lit(v[1])
      [] op = "greater_or_equal" -> c \o " >= " \o _lit(v[1])
      [] op = "less_or_equal"    -> c \o " <= " \o _lit(v[1])
      [] op = "in"               ->
            c \o " IN (" \o join(", ", [i \in 1..Len(v) |-> _lit(v[i])]) \o ")"
      [] op = "between"          -> between(c, v)

\* select_part that counts rows instead of distinct values.
select_part_count_star(agg) ==
    LET fn    == upper(agg.function)
        col   == _q(agg.column)
        alias == lower(fn) \o "_" \o replace(lower(agg.column), " ", "_")
    IN IF fn = "COUNT"
       THEN "COUNT(*) AS \"" \o alias \o "\""
       ELSE fn \o "(" \o col \o ") AS \"" \o alias \o "\""

\* build_sql: one item of the SELECT list for an aggregation.
select_part(agg) ==
    LET fn    == upper(agg.function)
        col   == _q(agg.column)
        alias == lower(fn) \o "_" \o replace(lower(agg.column), " ", "_")
    IN IF fn = "COUNT"
       THEN "COUNT(DISTINCT " \o col \o ") AS \"" \o alias \o "\""
       ELSE fn \o "(" \o col \o ") AS \"" \o alias \o "\""

\* build_sql: select_parts
select_parts(resolution) ==
    LET aggs == resolution.aggregations
        dims == resolution.dimensions
        cols == resolution.relevant_columns
    IN IF aggs # << >>
       THEN [i \in 1..Len(aggs) |-> select_part(aggs[i])]
            \o [i \in 1..Len(dims) |-> _q(dims[i])]
       ELSE [i \in 1..Len(cols) |-> _q(cols[i])]

\* conditions that renders a filter of an unknown operator too.
RECURSIVE conditions_keeps_unknown(_)
conditions_keeps_unknown(filters) ==
    IF filters = << >> THEN << >>
    ELSE LET f == Head(filters) IN
         (IF f.operator \in OP_KEYS
          THEN <<_OP_MAP(f.operator, _q(f.column), f.value)>>
          ELSE <<_q(f.column) \o " " \o f.operator \o " " \o _lit(f.value[1])>>)
         \o conditions_keeps_unknown(Tail(filters))

\* build_sql: the conditions of the filters whose operator _OP_MAP knows.
RECURSIVE conditions(_)
conditions(filters) ==
    IF filters = << >> THEN << >>
    ELSE LET f == Head(filters) IN
         (IF f.operator \in OP_KEYS
          THEN <<_OP_MAP(f.operator, _q(f.column), f.value)>> ELSE << >>)
         \o conditions(Tail(filters))

\* where_clause that joins the conditions with OR.
where_clause_or(resolution) ==
    IF resolution.filters # << >> /\ conditions(resolution.filters) # << >>
    THEN "\nWHERE " \o join("\n  OR ", conditions(resolution.filters))
    ELSE ""

\* build_sql: if resolution.filters
where_clause(resolution) ==
    IF resolution.filters # << >> /\ conditions(resolution.filters) # << >>
    THEN "\nWHERE " \o join("\n  AND ", conditions(resolution.filters))
    ELSE ""

\* group_by_clause that looks at the dimensions only.
group_by_clause_dimensions_only(resolution) ==
    IF resolution.dimensions # << >>
    THEN "\nGROUP BY " \o join(", ",
            [i \in 1..Len(resolution.dimensions) |-> _q(resolution.dimensions[i])])
    ELSE ""

\* build_sql: if resolution.aggregations and resolution.dimensions
group_by_clause(resolution) ==
    IF resolution.aggregations # << >> /\ resolution.dimensions # << >>
    THEN "\nGROUP BY " \o join(", ",
            [i \in 1..Len(resolution.dimensions) |-> _q(resolution.dimensions[i])])
    ELSE ""

\* build_sql: if resolution.sort
order_by_clause(resolution) ==
    IF resolution.sort # << >>
    THEN "\nORDER BY " \o join(", ",
            [i \in 1..Len(resolution.sort) |->
                _q(resolution.sort[i].column) \o " "
                \o upper(resolution.sort[i].direction)])
    ELSE ""

\* limit_truthy that takes every integer, 0 too, for a limit.
limit_truthy_not_none(limit) == limit # << >>

\* if resolution.limit: None and 0 are falsy.  limit is << >> for None and
\* <<n>> for the integer n.
limit_truthy(limit) == limit # << >> /\ limit[1] # 0

\* build_sql: if resolution.limit
limit_clause(resolution) ==
    IF limit_truthy(resolution.limit)
    THEN "\nLIMIT " \o ToString(resolution.limit[1])
    ELSE ""

build_sql(resolution, table_name) ==
    "SELECT " \o join(", ", select_parts(resolution)) \o "\nFROM " \o table_name
    \o where_clause(resolution)
    \o group_by_clause(resolution)
    \o order_by_clause(resolution)
    \o limit_clause(resolution)

\* table_name = csv_path.stem.lower().replace(" ", "_").replace("-", "_")
table_name_of(stem) == replace(replace(lower(stem), " ", "_"), "-", "_")

\* The orchestrator does not run the builder script.
NoBuild == [pc |-> "none", stem |-> "", resolution |-> << >>, table_name |-> "",
            sql_query |-> ""]

\* ------------------------------------------------------------ the actions
TypeOK ==
    /\ api_key \in BOOLEAN
    /\ turn \in 0..MaxTurns
    /\ pc \in Nodes \cup {"idle", "END"}
    /\ state.resolution_retry_count \in Nat
    /\ state.extraction_retry_count \in Nat
    /\ state.validation_passed \in BOOLEAN

Init ==
    /\ api_key \in BOOLEAN
    /\ chat_history = << >>
    /\ turn = 0
    /\ pc = "idle"
    /\ state = initial_state("", << >>)
    /\ trace = << >>
    /\ verdicts = << >>
    /\ judge_calls = 0
    /\ judgment = NoJudgment
    /\ builder = NoBuild

\* main(): a line of input starts a turn: graph.invoke(initial_state) enters
\* the graph at START -> query_resolution.
UserTurn ==
    /\ pc = "idle"
    /\ turn < MaxTurns
    /\ \E user_input \in Queries :
        LET history == Append(chat_history, [role |-> "user", content |-> user_input,
                                             query_spec |-> None]) IN
        /\ chat_history' = history
        /\ state' = initial_state(user_input, history)
    /\ turn' = turn + 1
    /\ pc' = "query_resolution"
    /\ trace' = << >>
    /\ verdicts' = << >>
    /\ judge_calls' = 0
    /\ judgment' = NoJudgment
    /\ UNCHANGED <<api_key, builder>>

\* Node query_resolution, then the edge query_resolution -> data_extraction.
QueryResolution ==
    /\ pc = "query_resolution"
    /\ \E out \in ResolutionOutcomes :
        state' = query_resolution_agent(state, api_key, out)
    /\ pc' = "data_extraction"
    /\ trace' = Append(trace, "query_resolution")
    /\ UNCHANGED <<api_key, chat_history, turn, verdicts, judgment, judge_calls, builder>>

\* Node data_extraction, then the edge data_extraction -> validation.
DataExtraction ==
    /\ pc = "data_extraction"
    /\ \E out \in ExtractionOutcomes :
        state' = data_extraction_agent(state, api_key, out)
    /\ pc' = "validation"
    /\ trace' = Append(trace, "data_extraction")
    /\ UNCHANGED <<api_key, chat_history, turn, verdicts, judgment, judge_calls, builder>>

\* The judgment a validation step made, as the history records it: who
\* made it ("judge" or "synthetic"), and the ValidationOutput as given.
Judgment(by, passed, route_to, reason) ==
    [by |-> by, passed |-> passed, route_to |-> route_to, reason |-> reason]

Verdict(j) == [by |-> j.by, passed |-> j.passed, route_to |-> j.route_to]

\* Node validation, then the conditional edge validation_router.
Validation ==
    /\ pc = "validation"
    /\ \E out \in JudgeOutcomes :
        LET path == validation_path(state, api_key, out) IN
        /\ state' = validation_agent(state, api_key, out)
        /\ judge_calls' = IF JudgeInvoked(path) THEN judge_calls + 1 ELSE judge_calls
        /\ IF path = "synthetic" THEN
              \* made from the error, without the Judge
              judgment' = Judgment("synthetic", FALSE, "data_extraction",
                                   "SQL execution failed: " \o state.error)
           ELSE IF path \in {"passed", "failed"} THEN
              judgment' = Judgment("judge", out.passed, out.route_to, out.reason)
           ELSE
              \* no API key, or the Judge raised: no judgment is made
              judgment' = judgment
        /\ verdicts' = IF path \in {"synthetic", "passed", "failed"}
                       THEN Append(verdicts, Verdict(judgment')) ELSE verdicts
    /\ pc' = validation_router(state')
    /\ trace' = Append(trace, "validation")
    /\ UNCHANGED <<api_key, chat_history, turn, builder>>

\* Node formatter, then the edge formatter -> END.
Formatter ==
    /\ pc = "formatter"
    /\ \E out \in FormatterOutcomes :
        state' = formatter_agent(state, api_key, out)
    /\ pc' = "END"
    /\ trace' = Append(trace, "formatter")
    /\ UNCHANGED <<api_key, chat_history, turn, verdicts, judgment, judge_calls, builder>>

\* The last N exchanges of the transcript are kept.
HISTORY_PAIRS == 5

trim_history(history) ==
    IF Len(history) <= 2 * HISTORY_PAIRS THEN history
    ELSE SubSeq(history, Len(history) - 2 * HISTORY_PAIRS + 1, Len(history))

\* main(): graph.invoke returned: the answer and the spec used are appended
\* to the transcript and the loop waits for the next line.
FinishTurn ==
    /\ pc = "END"
    /\ LET answer == IF state.final_answer # "" THEN state.final_answer
                     ELSE "No answer was produced." IN
       chat_history' = trim_history(Append(chat_history,
                          [role |-> "assistant", content |-> answer,
                           query_spec |-> state.resolution]))
    /\ pc' = "idle"
    /\ UNCHANGED <<api_key, turn, state, trace, verdicts, judgment, judge_calls, builder>>

Next ==
    \/ UserTurn
    \/ QueryResolution
    \/ DataExtraction
    \/ Validation
    \/ Formatter
    \/ FinishTurn

Spec == Init /\ [][Next]_vars

\* graph.invoke runs a started turn to completion: a node that is entered
\* runs and its outgoing edge is followed.
TurnStep == QueryResolution \/ DataExtraction \/ Validation \/ Formatter

FairSpec == Spec /\ WF_vars(TurnStep)

\* ------------------------------------------- the script test_sql_builder.py
\* The inputs of build_sql: the stem of the csv file and the fields of the
\* resolution.
MaxLimit == 5

CsvStems == {"sales", "Amazon Sale Report"}

\* The columns the profile of the csv file holds.
TABLE_COLUMNS == {"Category", "Amount", "Order ID", "Ship State", "B2B", "Courier Status"}

ColumnLists == {<< >>, <<"Category", "Amount">>, <<"Amount", "Amount">>, <<"Revenu">>}

Aggregation(column, function) == [column |-> column, function |-> function]

AggregationLists ==
    { << >>,
      <<Aggregation("Amount", "sum")>>,
      <<Aggregation("Order ID", "count")>>,
      <<Aggregation("Order ID", "Count"), Aggregation("Amount", "avg")>>,
      <<Aggregation("Amount", "median")>> }

DimensionLists == {<< >>, <<"Category">>, <<"Category", "Ship State">>}

Filter(column, operator, value) ==
    [column |-> column, operator |-> operator, value |-> value]

Amounts == {10, 100}

FilterLists ==
    { <<Filter("Amount", "between", <<PyInt(a), PyInt(b)>>)>> : a, b \in Amounts }
    \cup
    { << >>,
      <<Filter("Category", "equals", <<PyStr("Men's")>>)>>,
      <<Filter("Category", "in", <<PyStr("Set"), PyStr("Kurta")>>),
        Filter("Category", "contains", <<PyStr("Top")>>),
        Filter("Amount", "greater_than", <<PyInt(500)>>)>>,
      <<Filter("Category", "like", <<PyStr("Set")>>)>>,
      <<Filter("B2B", "equals", <<PyBool(TRUE)>>),
        Filter("B2B", "less_or_equal", <<PyBool(FALSE)>>),
        Filter("Courier Status", "equals", <<PyNone>>)>> }

Sort(column, direction) == [column |-> column, direction |-> direction]

SortLists ==
    { << >>,
      <<Sort("Amount", "desc")>>,
      <<Sort("Category", "asc"), Sort("Amount", "Desc")>> }

Limits == {<< >>} \cup {<<n>> : n \in (-1)..MaxLimit}

Resolutions ==
    [ relevant_columns : ColumnLists,
      aggregations     : AggregationLists,
      dimensions       : DimensionLists,
      filters          : FilterLists,
      sort             : SortLists,
      limit            : Limits ]

\* The script before its call of build_sql: a resolution and a csv file.
SqlInit ==
    /\ api_key = TRUE
    /\ chat_history = << >>
    /\ turn = 0
    /\ pc = "idle"
    /\ state = initial_state("", << >>)
    /\ trace = << >>
    /\ verdicts = << >>
    /\ judge_calls = 0
    /\ judgment = NoJudgment
    /\ \E stem \in CsvStems, resolution \in Resolutions :
          builder = [pc |-> "resolution", stem |-> stem, resolution |-> resolution,
                     table_name |-> "", sql_query |-> ""]

\* table_name = ...; sql_query = build_sql(resolution, table_name)
BuildSql ==
    /\ builder.pc = "resolution"
    /\ LET table_name == table_name_of(builder.stem) IN
       builder' = [builder EXCEPT !.pc = "sql_query",
                                  !.table_name = table_name,
                                  !.sql_query = build_sql(builder.resolution, table_name)]
    /\ UNCHANGED <<api_key, chat_history, turn, pc, state, trace, verdicts, judgment,
                   judge_calls>>

SqlNext == BuildSql

SqlSpec == SqlInit /\ [][SqlNext]_vars

\* ============================================================ properties
\* Derived from the history of the turn in flight.
Calls(node) == Count(trace, node)
FailingCycles == Cardinality({i \in 1..Len(verdicts) : ~verdicts[i].passed})
EveryJudgmentFailed == \A i \in 1..Len(verdicts) : ~verdicts[i].passed

\* C1: orchestrator termination.  Whatever the outcomes of the external
\* calls, a turn that is in flight reaches the formatter and then END, and
\* no turn ever holds more than 6 failing judgment cycles.
C1_OrchestratorTermination ==
    /\ [](FailingCycles <= 6)
    /\ (pc \in {"query_resolution", "data_extraction", "validation"}) ~> (pc = "formatter")
    /\ (pc = "formatter") ~> (pc = "END")

\* A turn in which every judgment failed has reached the formatter.
C1_Witness ==
    /\ pc = "formatter"
    /\ FailingCycles = 5
    /\ EveryJudgmentFailed

\* The Judge's verdict passed=false, route_to=data_extraction.
ExtractionFailure == [by |-> "judge", passed |-> FALSE, route_to |-> "data_extraction"]

\* The turn's judgments so far are three such verdicts in a row.
ThreeExtractionFailures == verdicts = <<ExtractionFailure, ExtractionFailure, ExtractionFailure>>

\* C2: after three failing judgments in a row routed to data_extraction, in
\* a turn whose extraction_retry_count started at 0, the router has gone to
\* the formatter, data_extraction has run exactly 3 times and the reason in
\* the state is the reason of the third failure.
C2_ThreeExtractionFailures ==
    ThreeExtractionFailures =>
        /\ pc \in {"formatter", "END", "idle"}
        /\ Calls("data_extraction") = 3
        /\ state.validation_reason = judgment.reason
        /\ ~state.validation_passed

C2_Witness ==
    /\ ThreeExtractionFailures
    /\ pc = "formatter"
    /\ state.validation_feedback = "reason2"
    /\ state.rows # << >>

\* A validation step that made a judgment (the Judge's or a synthetic one).
JudgedStep == pc = "validation" /\ Len(verdicts') = Len(verdicts) + 1
FailingStep == JudgedStep /\ ~judgment'.passed

\* C3: retry attribution.  A failing judgment with route_to=query_resolution
\* adds 1 to resolution_retry_count and leaves extraction_retry_count alone;
\* one with route_to=data_extraction adds 1 to extraction_retry_count and
\* leaves resolution_retry_count alone.
C3_RetryAttribution ==
    [][FailingStep =>
        /\ judgment'.route_to = "query_resolution" =>
              /\ state'.resolution_retry_count = state.resolution_retry_count + 1
              /\ state'.extraction_retry_count = state.extraction_retry_count
        /\ judgment'.route_to = "data_extraction" =>
              /\ state'.extraction_retry_count = state.extraction_retry_count + 1
              /\ state'.resolution_retry_count = state.resolution_retry_count]_vars

\* Failures of both routes have been counted in one turn.
C3_Witness ==
    /\ ~judgment.passed
    /\ judgment.route_to = "query_resolution"
    /\ state.resolution_retry_count = 2
    /\ state.extraction_retry_count = 2

\* The stage's retry counter in a state record.
RetryCount(s, stage) ==
    IF stage = "query_resolution" THEN s.resolution_retry_count
    ELSE s.extraction_retry_count

MaxRetries(stage) ==
    IF stage = "query_resolution" THEN MAX_RETRIES_RESOLUTION ELSE MAX_RETRIES_EXTRACTION

RetryStages == {"query_resolution", "data_extraction"}

\* Number of times the stage was entered from validation, by a retry.
ReEntries(stage) ==
    Cardinality({i \in 2..Len(trace) : trace[i] = stage /\ trace[i - 1] = "validation"})

\* C4 as stated: a failing judgment routed to a stage sends control back to
\* that stage whenever the stage's counter, read before the increment this
\* failure causes, is below 3, and the counter is then incremented.
C4_RetryGuardBeforeIncrement ==
    [][\A stage \in RetryStages :
        (FailingStep /\ judgment'.route_to = stage
            /\ RetryCount(state, stage) < MaxRetries(stage)) =>
              /\ pc' = stage
              /\ RetryCount(state', stage) = RetryCount(state, stage) + 1]_vars

\* C4 amended: a failing judgment routed to a stage increments that stage's
\* counter, and sends control back to the stage exactly when the counter
\* read after this increment is below 3 (before it: below 2), otherwise to
\* the formatter; so a stage is re-entered by retry at most 2 times a turn.
C4_RetryGuardAfterIncrement ==
    /\ [][\A stage \in RetryStages :
            (FailingStep /\ judgment'.route_to = stage) =>
              /\ RetryCount(state', stage) = RetryCount(state, stage) + 1
              /\ pc' = IF RetryCount(state, stage) + 1 < MaxRetries(stage)
                       THEN stage ELSE "formatter"]_vars
    /\ [](\A stage \in RetryStages : ReEntries(stage) <= MaxRetries(stage) - 1)

\* Both stages have used their two retries and the third failure of one of
\* them has ended the turn.
C4_Witness ==
    /\ pc = "formatter"
    /\ ReEntries("query_resolution") = 2
    /\ ReEntries("data_extraction") = 2
    /\ ~state.validation_passed
    /\ state.extraction_retry_count = 3

\* C5: both counters stay within 0..3, and every failing judgment cycle,
\* the Judge's or one synthesised from an execution error, adds exactly 1
\* to exactly one of the two counters.
C5_CountersBounded ==
    /\ [](/\ state.resolution_retry_count \in 0..MAX_RETRIES_RESOLUTION
          /\ state.extraction_retry_count \in 0..MAX_RETRIES_EXTRACTION
          /\ state.resolution_retry_count + state.extraction_retry_count = FailingCycles)
    /\ [][FailingStep =>
            \E stage \in RetryStages :
              /\ RetryCount(state', stage) = RetryCount(state, stage) + 1
              /\ \A other \in RetryStages \ {stage} :
                    RetryCount(state', other) = RetryCount(state, other)]_vars

\* A turn with failures of the Judge and synthetic ones, one counter at 3.
C5_Witness ==
    /\ state.extraction_retry_count = 3
    /\ state.resolution_retry_count = 2
    /\ \E i \in 1..Len(verdicts) : verdicts[i].by = "synthetic"
    /\ \E i \in 1..Len(verdicts) : verdicts[i].by = "judge"

\* C6: a judgment passed=true is the turn's last judgment and leads to the
\* formatter, whatever its route_to and the two counters: after it neither
\* query_resolution nor data_extraction runs again in the turn.
C6_PassGoesToFormatter ==
    \A i \in 1..Len(verdicts) :
        verdicts[i].passed =>
            /\ i = Len(verdicts)
            /\ pc \in {"formatter", "END", "idle"}
            /\ trace[Len(trace)] \in {"validation", "formatter"}
            /\ Calls("formatter") <= 1
            /\ trace[Len(trace) - Calls("formatter")] = "validation"

\* A passing judgment that names a route, with retries still available.
C6_Witness ==
    /\ pc = "formatter"
    /\ judgment.passed
    /\ judgment.route_to = "query_resolution"
    /\ state.resolution_retry_count = 2
    /\ state.extraction_retry_count = 1

\* data_extraction ended in its except branch: state["error"] holds the
\* exception of SQL generation or of the engine.
ExecutionError(s) ==
    \E e \in ExtractionExcs : s.error = "data_extraction_agent failed: " \o e

\* C7: an execution error does not end the turn.  The validation step that
\* follows makes a failing judgment without calling the Judge
\* (validation_passed=false, route_to=data_extraction, the reason carrying
\* the error message), charges it to the extraction counter, and the router
\* treats it like any failure: retry below the ceiling, else the formatter.
C7_ExecutionErrorIsJudged ==
    /\ [][(pc = "data_extraction" /\ ExecutionError(state')) => pc' = "validation"]_vars
    /\ [][(pc = "validation" /\ ExecutionError(state)) =>
            /\ judge_calls' = judge_calls
            /\ judgment'.by = "synthetic"
            /\ state'.validation_passed = FALSE
            /\ state'.route_to = "data_extraction"
            /\ state'.validation_reason = "SQL execution failed: " \o state.error
            /\ state'.extraction_retry_count = state.extraction_retry_count + 1
            /\ state'.resolution_retry_count = state.resolution_retry_count
            /\ pc' = IF state.extraction_retry_count + 1 < MAX_RETRIES_EXTRACTION
                     THEN "data_extraction" ELSE "formatter"]_vars

\* The first execution of the turn raised and data_extraction is retried.
C7_Witness ==
    /\ pc = "data_extraction"
    /\ judgment.by = "synthetic"
    /\ judge_calls = 0
    /\ state.validation_reason = "SQL execution failed: data_extraction_agent failed: Binder Error"

\* The turn ended after a failing last judgment.
EndedInFailure == pc = "END" /\ ~state.validation_passed /\ judgment.by # "none"

C9_FailureOnlyWhenBothExhausted ==
    (pc = "formatter" /\ ~state.validation_passed /\ judgment.by # "none") =>
        /\ state.resolution_retry_count = MAX_RETRIES_RESOLUTION
        /\ state.extraction_retry_count = MAX_RETRIES_EXTRACTION

\* C9 amended: the formatter is entered with validation_passed=false only
\* when the counter of the stage the last failing judgment was routed to is
\* at its ceiling and the other counter is below its own, or when no
\* judgment was made at all because the API key is not set.  One exhausted
\* ceiling ends the turn; the two are never exhausted together.
C9_FailureWhenRoutedStageExhausted ==
    (pc = "formatter" /\ ~state.validation_passed) =>
        \/ /\ ~api_key
           /\ judgment.by = "none"
           /\ state.resolution_retry_count = 0
           /\ state.extraction_retry_count = 0
        \/ /\ api_key
           /\ ~judgment.passed
           /\ state.route_to = "query_resolution"
           /\ judgment.route_to = "query_resolution"
           /\ state.resolution_retry_count = MAX_RETRIES_RESOLUTION
           /\ state.extraction_retry_count < MAX_RETRIES_EXTRACTION
        \/ /\ api_key
           /\ ~judgment.passed
           /\ state.route_to = "data_extraction"
           /\ judgment.route_to # "query_resolution"
           /\ state.extraction_retry_count = MAX_RETRIES_EXTRACTION
           /\ state.resolution_retry_count < MAX_RETRIES_RESOLUTION

\* The extraction ceiling alone is exhausted and the turn ends in failure.
C9_Witness ==
    /\ pc = "formatter"
    /\ ~state.validation_passed
    /\ state.extraction_retry_count = MAX_RETRIES_EXTRACTION
    /\ state.resolution_retry_count = 0

\* The Resolution stage has yielded no spec in this turn.
NoSpec == api_key /\ turn > 0 /\ state.resolution = None /\ Calls("query_resolution") > 0

\* C10 as stated: when the Resolution stage yields no valid spec, the
\* machine does not go on to data_extraction, and the failing cycle is
\* charged to the resolution counter, not to the extraction counter.
C10_NoSpecChargedToResolution ==
    NoSpec =>
        /\ Calls("data_extraction") = 0
        /\ state.extraction_retry_count = 0
        /\ state.resolution_retry_count = FailingCycles

\* C10 amended: when the Resolution stage fails and leaves no spec in the
\* state, the machine still goes on to data_extraction, which returns the
\* error "no resolution in state" without generating or running SQL; each
\* resulting failing cycle is a synthetic judgment charged to the extraction
\* counter (route_to=data_extraction) and the resolution counter stays 0.
C10_NoSpecChargedToExtraction ==
    /\ [][pc = "query_resolution" => pc' = "data_extraction"]_vars
    /\ [](NoSpec =>
            /\ state.sql = "" /\ state.rows = << >> /\ state.columns = << >>
            /\ pc \in {"validation", "formatter", "END", "idle"} =>
                  state.error \in {"data_extraction_agent: no resolution in state", None}
            /\ pc = "validation" => state.error = "data_extraction_agent: no resolution in state"
            /\ \A i \in 1..Len(verdicts) :
                  verdicts[i] = [by |-> "synthetic", passed |-> FALSE,
                                 route_to |-> "data_extraction"]
            /\ judge_calls = 0
            /\ state.resolution_retry_count = 0
            /\ state.extraction_retry_count = FailingCycles)

\* Resolution raised on the first attempt and the failure was charged.
C10_Witness ==
    /\ NoSpec
    /\ pc = "data_extraction"
    /\ state.extraction_retry_count = 2
    /\ state.route_to = "data_extraction"

\* The text is one of the values the prompt carries.
InPrompt(prompt, text) == \E i \in 1..Len(prompt) : prompt[i] = text

\* The stage is about to run again, entered from validation.
ReEntered(stage) == pc = stage /\ trace # << >> /\ trace[Len(trace)] = "validation"

\* C11: on every re-entry to query_resolution or to data_extraction caused
\* by a failing judgment, validation_feedback holds the reason of that
\* judgment and the prompt of the re-entered collaborator carries it.
C11_FeedbackHandedOnReEntry ==
    /\ ReEntered("query_resolution") =>
          /\ state.validation_feedback = judgment.reason
          /\ InPrompt(resolution_prompt(state), judgment.reason)
    /\ (ReEntered("data_extraction") /\ Truthy(state.resolution)) =>
          /\ state.validation_feedback = judgment.reason
          /\ InPrompt(extraction_prompt(state), judgment.reason)

\* Steps in which the call of a collaborator raised.
ResolutionRaised ==
    /\ pc = "query_resolution"
    /\ \E e \in ResolutionExcs : state'.error = "query_resolution_agent failed: " \o e
JudgeRaised ==
    /\ pc = "validation"
    /\ judge_calls' = judge_calls + 1
    /\ verdicts' = verdicts
FormatterRaised ==
    /\ pc = "formatter"
    /\ \E e \in FormatterExcs : state'.error = "formatter LLM failed: " \o e

\* C12 as stated: when the call of the Resolution, Judge or Formatter
\* collaborator raises, the turn ends there with the failure as its
\* outcome: no passing verdict, no further stage, no substitute answer.
C12_UnavailabilityIsFatal ==
    [][(ResolutionRaised \/ JudgeRaised \/ FormatterRaised) =>
          /\ pc' = "END"
          /\ ~state'.validation_passed
          /\ state'.final_answer \in
                ResolutionExcs \cup JudgeExcs \cup FormatterExcs \cup {state'.error}]_vars

\* C12 amended: the failure of a collaborator is absorbed.  A Resolution
\* failure is stored in error and the turn goes on to data_extraction with
\* the resolution it had; a Judge failure becomes a passing verdict whose
\* reason quotes the exception, and the turn goes to the formatter; a
\* Formatter failure yields the row dump as a substitute answer, the
\* exception stored in error.
C12_UnavailabilityIsAbsorbed ==
    /\ [][ResolutionRaised =>
            /\ pc' = "data_extraction"
            /\ state'.resolution = state.resolution
            /\ state'.final_answer = ""]_vars
    /\ [][JudgeRaised =>
            /\ pc' = "formatter"
            /\ state'.validation_passed
            /\ \E e \in JudgeExcs : state'.validation_reason =
                  "Validation LLM failed (" \o e \o "), passing through."
            /\ state'.resolution_retry_count = state.resolution_retry_count
            /\ state'.extraction_retry_count = state.extraction_retry_count]_vars
    /\ [][FormatterRaised =>
            /\ pc' = "END"
            /\ state'.final_answer \in
                  {"Results (0 rows):\n(no data)", "Results (1 rows):\nc1\nrow1"}]_vars

\* A turn in which resolution was retried, the Judge then raised and the
\* formatter raised too.
C12_Witness ==
    /\ pc = "END"
    /\ state.resolution_retry_count = 1
    /\ state.validation_reason = "Validation LLM failed (judge LLM down), passing through."
    /\ state.error = "formatter LLM failed: formatter LLM down"
    /\ state.final_answer = "Results (1 rows):\nc1\nrow1"

\* C13: every turn starts from a fresh state: resolution null, sql, rows
\* and columns empty, validation_passed false, both counters 0, whatever the
\* turn before left; only the transcript is carried into the new state.
C13_FreshStatePerTurn ==
    [][(pc = "idle" /\ pc' # "idle") =>
          /\ state'.resolution = None
          /\ state'.sql = "" /\ state'.rows = << >> /\ state'.columns = << >>
          /\ state'.validation_passed = FALSE
          /\ state'.validation_reason = "" /\ state'.validation_feedback = ""
          /\ state'.route_to = ""
          /\ state'.resolution_retry_count = 0
          /\ state'.extraction_retry_count = 0
          /\ state'.final_answer = "" /\ state'.error = None
          /\ state'.chat_history = chat_history'
          /\ SubSeq(chat_history', 1, Len(chat_history)) = chat_history
          /\ Len(chat_history') = Len(chat_history) + 1]_vars

\* The second turn has started after a turn that exhausted its retries.
C13_Witness ==
    /\ turn = 2
    /\ pc = "query_resolution"
    /\ Len(chat_history) = 3
    /\ chat_history[2].content = "I wasn't able to answer that. reason1"
    /\ state.extraction_retry_count = 0

\* ------------------------------------------------- reading the SQL text
StartsWith(s, prefix) == Len(s) >= Len(prefix) /\ SubSeq(s, 1, Len(prefix)) = prefix

After(s, prefix) == SubSeq(s, Len(prefix) + 1, Len(s))

\* The positions at which sep occurs in s.
Occurrences(s, sep) ==
    {i \in 1..(Len(s) - Len(sep) + 1) : SubSeq(s, i, i + Len(sep) - 1) = sep}

RECURSIVE SplitFrom(_, _, _, _)
SplitFrom(s, sep, from, occurrences) ==
    LET later == {i \in occurrences : i >= from} IN
    IF later = {} THEN <<SubSeq(s, from, Len(s))>>
    ELSE LET next == CHOOSE i \in later : \A k \in later : i <= k
         IN <<SubSeq(s, from, next - 1)>>
            \o SplitFrom(s, sep, next + Len(sep), later \ {next})

\* The pieces of s between the occurrences of sep; none for the empty text.
Split(s, sep) == IF s = "" THEN << >> ELSE SplitFrom(s, sep, 1, Occurrences(s, sep))

Lines(sql) == Split(sql, "\n")

\* The lines of the text that begin with the keyword, the keyword removed.
Clauses(sql, keyword) ==
    LET ls  == Lines(sql)
        sel == SelectSeq(ls, LAMBDA l : StartsWith(l, keyword))
    IN [i \in 1..Len(sel) |-> After(sel[i], keyword)]

\* The items of the SELECT list.
SelectList(sql) == Split(After(Lines(sql)[1], "SELECT "), ", ")

DoubleQuoted(name) == "\"" \o name \o "\""

Built == builder.pc = "sql_query"

\* The resolution of the script: sum of Amount by Category, the largest first.
RankingResolution ==
    /\ builder.resolution.aggregations = <<Aggregation("Amount", "sum")>>
    /\ builder.resolution.dimensions = <<"Category">>
    /\ builder.resolution.sort = <<Sort("Amount", "desc")>>
    /\ builder.resolution.limit = <<1>>
    /\ builder.resolution.filters = << >>

\* C14: build_sql on aggregations [(Amount, sum)], dimensions [Category],
\* sort [(Amount, desc)], limit 1, no filters, and the table name sales
\* returns exactly five lines joined by newlines, the table name unquoted.
C14_RankingScenario ==
    (Built /\ RankingResolution /\ builder.table_name = "sales") =>
        builder.sql_query =
            "SELECT SUM(\"Amount\") AS \"sum_amount\", \"Category\"\nFROM sales\nGROUP BY \"Category\"\nORDER BY \"Amount\" DESC\nLIMIT 1"

C14_Witness ==
    /\ Built /\ RankingResolution /\ builder.stem = "sales"
    /\ builder.resolution.relevant_columns = <<"Category", "Amount">>
    /\ Lines(builder.sql_query) =
          << "SELECT SUM(\"Amount\") AS \"sum_amount\", \"Category\"",
             "FROM sales",
             "GROUP BY \"Category\"",
             "ORDER BY \"Amount\" DESC",
             "LIMIT 1" >>

\* C15: with no aggregations the SELECT list is relevant_columns: same
\* length, same order, each name in double quotes, duplicates kept, no
\* dimension added.
C15_SelectListIsRelevantColumns ==
    (Built /\ builder.resolution.aggregations = << >>) =>
        LET items == SelectList(builder.sql_query)
            cols  == builder.resolution.relevant_columns
        IN /\ Len(items) = Len(cols)
           /\ \A i \in 1..Len(cols) : items[i] = DoubleQuoted(cols[i])

\* A duplicated column and two dimensions, no aggregation.
C15_Witness ==
    /\ Built
    /\ builder.resolution.aggregations = << >>
    /\ builder.resolution.relevant_columns = <<"Amount", "Amount">>
    /\ builder.resolution.dimensions = <<"Category", "Ship State">>
    /\ Lines(builder.sql_query)[1] = "SELECT \"Amount\", \"Amount\""

\* The function names and column names of the inputs, in the letter case
\* the select item is expected to show them.
UpperCased(f) ==
    CASE f = "sum" -> "SUM" [] f = "avg" -> "AVG" [] f = "median" -> "MEDIAN"
      [] f \in {"count", "Count"} -> "COUNT"
LowerCased(f) ==
    CASE f = "sum" -> "sum" [] f = "avg" -> "avg" [] f = "median" -> "median"
      [] f \in {"count", "Count"} -> "count"
SnakeCased(column) ==
    CASE column = "Amount" -> "amount" [] column = "Order ID" -> "order_id"

\* C16: with aggregations, each aggregation (C, f) yields in order one
\* item FUNCTION("C") AS "alias", the function upper-cased, the alias
\* lower-cased f, underscore, C lower-cased with underscores for spaces; a
\* count of any letter case yields COUNT(DISTINCT "C"), never COUNT(*); the
\* dimensions follow, quoted and unaliased, in order.
C16_AggregationItems ==
    (Built /\ builder.resolution.aggregations # << >>) =>
        LET items == SelectList(builder.sql_query)
            aggs  == builder.resolution.aggregations
            dims  == builder.resolution.dimensions
            alias(a) == DoubleQuoted(LowerCased(a.function) \o "_" \o SnakeCased(a.column))
        IN /\ Len(items) = Len(aggs) + Len(dims)
           /\ \A i \in 1..Len(aggs) :
                items[i] =
                    IF UpperCased(aggs[i].function) = "COUNT"
                    THEN "COUNT(DISTINCT " \o DoubleQuoted(aggs[i].column) \o ") AS "
                         \o alias(aggs[i])
                    ELSE UpperCased(aggs[i].function) \o "("
                         \o DoubleQuoted(aggs[i].column) \o ") AS " \o alias(aggs[i])
           /\ \A i \in 1..Len(items) : ~StartsWith(items[i], "COUNT(*)")
           /\ \A j \in 1..Len(dims) : items[Len(aggs) + j] = DoubleQuoted(dims[j])

\* A count written Count, a second aggregation and two dimensions.
C16_Witness ==
    /\ Built
    /\ builder.resolution.aggregations =
          <<Aggregation("Order ID", "Count"), Aggregation("Amount", "avg")>>
    /\ SelectList(builder.sql_query) =
          << "COUNT(DISTINCT \"Order ID\") AS \"count_order_id\"",
             "AVG(\"Amount\") AS \"avg_amount\"",
             "\"Category\"", "\"Ship State\"" >>

\* The conditions of the WHERE clause: its first line and the AND lines.
ConditionLines(sql) == Clauses(sql, "WHERE ") \o Clauses(sql, "  AND ")

\* C17: a filter with operator between and value [a, b] is emitted as
\* "col" BETWEEN lit(a) AND lit(b), a first and b second, also when a > b.
C17_BetweenKeepsOrder ==
    Built =>
        \A i \in 1..Len(builder.resolution.filters) :
            LET f == builder.resolution.filters[i] IN
            f.operator = "between" =>
                \E k \in 1..Len(ConditionLines(builder.sql_query)) :
                    ConditionLines(builder.sql_query)[k] =
                        DoubleQuoted(f.column) \o " BETWEEN " \o ToString(f.value[1].n)
                        \o " AND " \o ToString(f.value[2].n)

\* The bounds given as 100 and 10.
C17_Witness ==
    /\ Built
    /\ builder.resolution.filters =
          <<Filter("Amount", "between", <<PyInt(100), PyInt(10)>>)>>
    /\ ConditionLines(builder.sql_query) = <<"\"Amount\" BETWEEN 100 AND 10">>

\* C18: limit 0 and limit None give no LIMIT clause; a positive limit n
\* makes the text end with the one clause LIMIT n.
C18_LimitClause ==
    Built =>
        LET limit == builder.resolution.limit
            ls    == Lines(builder.sql_query)
        IN /\ (limit = << >> \/ limit = <<0>>) =>
                \A i \in 1..Len(ls) : ~StartsWith(ls[i], "LIMIT")
           /\ (limit # << >> /\ limit[1] > 0) =>
                /\ ls[Len(ls)] = "LIMIT " \o ToString(limit[1])
                /\ Len(Clauses(builder.sql_query, "LIMIT")) = 1

\* limit = 5
C18_Witness ==
    /\ Built
    /\ builder.resolution.limit = <<5>>
    /\ builder.resolution.sort # << >>
    /\ Lines(builder.sql_query)[Len(Lines(builder.sql_query))] = "LIMIT 5"

\* C19: a LIMIT clause appears only if limit is a positive integer.
C19_LimitOnlyIfPositive ==
    (Built /\ Clauses(builder.sql_query, "LIMIT") # << >>) =>
        /\ builder.resolution.limit # << >>
        /\ builder.resolution.limit[1] > 0

\* C20: a GROUP BY clause is emitted if and only if aggregations and
\* dimensions are both non-empty, and it lists the dimensions, quoted, in
\* their order.
C20_GroupByClause ==
    Built =>
        LET groups == Clauses(builder.sql_query, "GROUP BY ")
            dims   == builder.resolution.dimensions
        IN /\ groups # << >> <=>
                (builder.resolution.aggregations # << >> /\ dims # << >>)
           /\ groups # << >> =>
                /\ Len(groups) = 1
                /\ Split(groups[1], ", ") = [i \in 1..Len(dims) |-> DoubleQuoted(dims[i])]

\* Two dimensions under an aggregation.
C20_Witness ==
    /\ Built
    /\ builder.resolution.aggregations = <<Aggregation("Amount", "sum")>>
    /\ builder.resolution.dimensions = <<"Category", "Ship State">>
    /\ Clauses(builder.sql_query, "GROUP BY ") = <<"\"Category\", \"Ship State\"">>

\* The script has gone past its call of build_sql.
Compiled == builder.pc \notin {"none", "resolution"}

\* The columns a resolution names anywhere.
ReferencedColumns(resolution) ==
    {resolution.relevant_columns[i] : i \in 1..Len(resolution.relevant_columns)}
    \cup {resolution.aggregations[i].column : i \in 1..Len(resolution.aggregations)}
    \cup {resolution.dimensions[i] : i \in 1..Len(resolution.dimensions)}
    \cup {resolution.filters[i].column : i \in 1..Len(resolution.filters)}
    \cup {resolution.sort[i].column : i \in 1..Len(resolution.sort)}

\* C21: a resolution that names a column outside the table's column set is
\* rejected with SpecValidationError before any SQL is generated; the name
\* is never passed into SQL.
C21_UnknownColumnRejected ==
    (Compiled /\ ~(ReferencedColumns(builder.resolution) \subseteq TABLE_COLUMNS)) =>
        /\ builder.pc = "SpecValidationError"
        /\ builder.sql_query = ""

RecognizedFunctions == {"sum", "avg", "count", "min", "max"}

\* C22: an aggregation whose function is not sum, avg, count, min or max,
\* in any letter case, makes compilation fail with SpecValidationError; the
\* function name is never passed into the SQL.
C22_UnknownFunctionRejected ==
    (/\ Compiled
     /\ \E i \in 1..Len(builder.resolution.aggregations) :
            LowerCased(builder.resolution.aggregations[i].function)
                \notin RecognizedFunctions) =>
        /\ builder.pc = "SpecValidationError"
        /\ builder.sql_query = ""

\* The seven operators and the text each puts after the column.
OperatorText(operator) ==
    CASE operator = "equals"           -> " = "
      [] operator = "greater_than"     -> " > "
      [] operator = "less_than"        -> " < "
      [] operator = "greater_or_equal" -> " >= "
      [] operator = "less_or_equal"    -> " <= "
      [] operator = "in"               -> " IN ("
      [] operator = "between"          -> " BETWEEN "
      [] OTHER                         -> ""

\* The filters whose operator is one of the seven, in their order.
KnownFilters(filters) == SelectSeq(filters, LAMBDA f : OperatorText(f.operator) # "")

\* The conditions are joined by AND alone: one WHERE line, the other
\* conditions on AND lines, no OR, no NOT, no condition in parentheses.
JoinedByAndOnly(sql) ==
    LET conds == ConditionLines(sql) IN
    /\ Len(Clauses(sql, "WHERE ")) = 1
    /\ Len(Clauses(sql, "  AND ")) = Len(conds) - 1
    /\ Occurrences(sql, " OR ") = {}
    /\ Occurrences(sql, "NOT ") = {}
    /\ \A k \in 1..Len(conds) : ~StartsWith(conds[k], "(")

RenderedValues(condition, f) ==
    LET rest == After(condition, DoubleQuoted(f.column) \o OperatorText(f.operator)) IN
    CASE f.operator = "in"      -> Split(SubSeq(rest, 1, Len(rest) - 1), ", ")
      [] f.operator = "between" -> Split(rest, " AND ")
      [] OTHER                  -> <<rest>>

\* The text of the strings of the inputs, their single quotes doubled.
QuotesDoubled(s) == CASE s = "Men's" -> "Men''s" [] OTHER -> s

\* The rendering the claim gives for a string, a boolean and a number.
ExpectedLiteral(value) ==
    CASE value.kind = "str"  -> "'" \o QuotesDoubled(value.s) \o "'"
      [] value.kind = "bool" -> IF value.b THEN "true" ELSE "false"
      [] value.kind = "int"  -> ToString(value.n)
      [] OTHER               -> "NULL"

\* Every value of every rendered filter satisfies P(value, text).
EveryRenderedValue(P(_, _)) ==
    LET conds == ConditionLines(builder.sql_query)
        known == KnownFilters(builder.resolution.filters)
    IN \A k \in 1..Len(known) :
          LET texts == RenderedValues(conds[k], known[k]) IN
          /\ Len(texts) = Len(known[k].value)
          /\ \A j \in 1..Len(texts) : P(known[k].value[j], texts[j])

SomeUnknownOperator ==
    \E i \in 1..Len(builder.resolution.filters) :
        OperatorText(builder.resolution.filters[i].operator) = ""

\* C30: a filter whose operator is not one of the seven is omitted without
\* an error, the other filters keep their order, and when every filter is
\* omitted there is no WHERE clause although filters is not empty.
C30_UnknownOperatorOmitted ==
    (Compiled /\ SomeUnknownOperator) =>
        LET conds   == ConditionLines(builder.sql_query)
            filters == builder.resolution.filters
            known   == KnownFilters(filters)
        IN /\ Built
           /\ StartsWith(builder.sql_query, "SELECT ")
           /\ Len(conds) = Len(known)
           /\ \A k \in 1..Len(known) :
                 StartsWith(conds[k], DoubleQuoted(known[k].column)
                                      \o OperatorText(known[k].operator))
           /\ \A i \in 1..Len(filters) :
                 OperatorText(filters[i].operator) = "" =>
                     Occurrences(builder.sql_query, filters[i].operator) = {}
           /\ known = << >> => Occurrences(builder.sql_query, "WHERE") = {}

\* The only filter has the operator like: no WHERE clause.
C30_Witness ==
    /\ Built
    /\ builder.resolution.filters = <<Filter("Category", "like", <<PyStr("Set")>>)>>
    /\ builder.resolution.relevant_columns = <<"Category", "Amount">>
    /\ builder.resolution.aggregations = << >>
    /\ builder.resolution.sort = << >>
    /\ builder.resolution.limit = << >>
    /\ Lines(builder.sql_query) = <<"SELECT \"Category\", \"Amount\"", "FROM " \o builder.table_name>>

\* C25: in a turn data_extraction runs at most 5 times, query_resolution at
\* most 3 times and validation at most 5 times, and each stage is re-entered
\* through a retry at most 2 times.
C25_InvocationBounds ==
    /\ Calls("data_extraction") <= 5
    /\ Calls("query_resolution") <= 3
    /\ Calls("validation") <= 5
    /\ \A stage \in RetryStages : ReEntries(stage) <= 2

\* A turn that reaches every one of the bounds.
C25_Witness ==
    /\ pc = "END"
    /\ Calls("data_extraction") = 5
    /\ Calls("query_resolution") = 3
    /\ Calls("validation") = 5
    /\ \A stage \in RetryStages : ReEntries(stage) = 2

\* The stage that follows the i-th stage of the trace: the next entry, or
\* the stage about to run.
Successor(i) == IF i < Len(trace) THEN trace[i + 1] ELSE pc

\* C26: the first stage is query_resolution; every query_resolution step is
\* followed at once by data_extraction, every data_extraction step by
\* validation; the formatter is entered only from validation, once per
\* turn, and is the last stage before END.
C26_StageOrdering ==
    /\ (pc \in Nodes /\ trace = << >>) => pc = "query_resolution"
    /\ trace # << >> => trace[1] = "query_resolution"
    /\ \A i \in 1..Len(trace) :
          /\ trace[i] = "query_resolution" => Successor(i) = "data_extraction"
          /\ trace[i] = "data_extraction" => Successor(i) = "validation"
          /\ trace[i] = "validation" =>
                Successor(i) \in {"query_resolution", "data_extraction", "formatter"}
          /\ trace[i] = "formatter" =>
                /\ i > 1 /\ trace[i - 1] = "validation"
                /\ i = Len(trace)
                /\ pc \in {"END", "idle"}
    /\ pc = "formatter" => trace[Len(trace)] = "validation"
    /\ Calls("formatter") <= 1
    /\ pc = "END" => Calls("formatter") = 1

\* A turn with a retry of each stage, whose formatter call raised.
C26_Witness ==
    /\ pc = "END"
    /\ trace = <<"query_resolution", "data_extraction", "validation",
                 "query_resolution", "data_extraction", "validation",
                 "data_extraction", "validation", "formatter">>
    /\ state.error = "formatter LLM failed: formatter LLM down"

NoResolutionError == "data_extraction_agent: no resolution in state"

\* C27: when query_resolution raised on the first attempt of the turn, every
\* data_extraction step fails with the 'no resolution' error, every failing
\* cycle is charged to extraction_retry_count, query_resolution is not
\* invoked again, and the turn ends after exactly 3 failing cycles with
\* extraction_retry_count = 3, resolution_retry_count = 0 and a failure
\* answer.
C27_FirstResolutionRaised ==
    NoSpec =>
        /\ Calls("query_resolution") = 1
        /\ state.resolution_retry_count = 0
        /\ state.extraction_retry_count = Len(verdicts)
        /\ Calls("validation") = Len(verdicts)
        /\ \A i \in 1..Len(verdicts) :
              verdicts[i] = [by |-> "synthetic", passed |-> FALSE,
                             route_to |-> "data_extraction"]
        /\ Calls("data_extraction") > 0 => state.error = NoResolutionError
        /\ state.sql = "" /\ state.rows = << >>
        /\ pc \in {"formatter", "END", "idle"} =>
              /\ Len(verdicts) = 3
              /\ Calls("data_extraction") = 3
              /\ state.extraction_retry_count = 3
        /\ pc \in {"END", "idle"} =>
              state.final_answer =
                  "I wasn't able to answer that. SQL execution failed: " \o NoResolutionError

\* Such a turn at its end.
C27_Witness ==
    /\ NoSpec
    /\ pc = "END"
    /\ trace = <<"query_resolution", "data_extraction", "validation",
                 "data_extraction", "validation",
                 "data_extraction", "validation", "formatter">>
    /\ state.extraction_retry_count = 3

\* A data_extraction step, by the way it ended: in the except branch, or
\* with the result of the engine.
ExtractionRaisedStep == pc = "data_extraction" /\ ExecutionError(state')
ExtractionSucceededStep ==
    /\ pc = "data_extraction"
    /\ api_key
    /\ Truthy(state.resolution)
    /\ ~ExecutionError(state')

\* C28: after a data_extraction step that ends in an exception sql, rows
\* and columns are empty and error is set; after one that succeeds error is
\* None.  So no rows of an earlier attempt are in the state after a later
\* failed attempt, and after a success the validation step calls the Judge
\* instead of making a synthetic failure.
C28_ExtractionOutcome ==
    /\ [][ExtractionRaisedStep =>
            /\ state'.sql = ""
            /\ state'.rows = << >>
            /\ state'.columns = << >>
            /\ Truthy(state'.error)]_vars
    /\ [][ExtractionSucceededStep =>
            /\ state'.error = None
            /\ state'.sql \in Sqls]_vars
    /\ [][(pc = "validation" /\ ExecutionError(state)) =>
            /\ state'.rows = << >>
            /\ judge_calls' = judge_calls
            /\ judgment'.by = "synthetic"]_vars
    /\ [][(pc = "validation" /\ api_key /\ state.error = None) =>
            /\ judge_calls' = judge_calls + 1
            /\ judgment'.by # "synthetic" \/ judgment' = judgment]_vars

\* Rows, then an exception on the retry, then a success that the Judge
\* passes.
C28_Witness ==
    /\ pc = "formatter"
    /\ Len(verdicts) = 3
    /\ verdicts[1] = [by |-> "judge", passed |-> FALSE, route_to |-> "data_extraction"]
    /\ verdicts[2] = [by |-> "synthetic", passed |-> FALSE, route_to |-> "data_extraction"]
    /\ verdicts[3].by = "judge" /\ verdicts[3].passed
    /\ state.rows = <<"row1">>
    /\ state.error = None

\* The six fields of the state that hold the judgment and the retry counts.
JudgmentFields(s) ==
    <<s.validation_passed, s.validation_reason, s.validation_feedback, s.route_to,
      s.resolution_retry_count, s.extraction_retry_count>>

\* C29: only the validation step changes validation_passed,
\* validation_reason, validation_feedback, route_to and the two retry
\* counters; query_resolution, data_extraction and the formatter leave them
\* as they are, and within a turn neither counter ever decreases.
C29_OnlyValidationJudges ==
    /\ [][(pc \in {"query_resolution", "data_extraction", "formatter", "END"}) =>
            JudgmentFields(state') = JudgmentFields(state)]_vars
    /\ [][turn' = turn =>
            /\ state'.resolution_retry_count >= state.resolution_retry_count
            /\ state'.extraction_retry_count >= state.extraction_retry_count]_vars

\* Resolution retried twice and the extraction retries used up.
C29_Witness ==
    /\ pc = "END"
    /\ state.resolution_retry_count = 2
    /\ state.extraction_retry_count = 3
    /\ state.validation_feedback = "reason2"
    /\ Calls("formatter") = 1

====
